---- MODULE Spec2Model ----
(***************************************************************************)
(* StudyFlow Assistant bookmarklet (src/bookmarklet/studyflow.js).         *)
(*                                                                         *)
(* A JavaScript string is a sequence of one-character strings, so that     *)
(* includes, startsWith, trim, toLowerCase, split and the regular          *)
(* expressions act on characters as they do in the source.                 *)
(***************************************************************************)
EXTENDS Integers, Sequences, FiniteSets, TLC

VARIABLES
    API_KEY,      \* line 2: the configured access key
    API_MODE,     \* line 3: the configured provider mode
    GEMINI_KEY,   \* what the identifier GEMINI_KEY of line 312 resolves to
    href,         \* window.location.href
    dom,          \* the live document: the cards of the page, in document order
    pc,           \* where the async main function is suspended
    panel,        \* whether #sf-panel is in the document
    status,       \* textContent of #sf-status
    results,      \* the blocks appended to #sf-results
    sfLog,        \* window._sfLog
    assignments,  \* the list scanLiveTodo returned
    i,            \* the main loop's index (1-based)
    ep,           \* the endpoint the generation client is at (1-based)
    resp,         \* the Response the pending resp.json() reads
    attempts,     \* what each endpoint of the current generate call did
    draft,        \* the value generateDraft returned last
    events,       \* the calls main made, in order
    title,        \* shouldSkip's first argument
    course,       \* shouldSkip's second argument
    skipped,      \* shouldSkip's return value
    frame,        \* the hidden iframe of getAssignmentDetails: none, attached, removed
    promise,      \* the promise getAssignmentDetails returned: none, pending, resolved, rejected
    value,        \* what that promise was resolved with
    calls,        \* how many times its resolve function was called
    now,          \* seconds since getAssignmentDetails was called
    timers,       \* the timers set by setTimeout and not yet fired, in the order set
    loads         \* how many load events the iframe has fired

vars == <<API_KEY, API_MODE, GEMINI_KEY, href, dom, pc, panel, status, results,
          sfLog, assignments, i, ep, resp, attempts, draft, events,
          title, course, skipped,
          frame, promise, value, calls, now, timers, loads>>

----------------------------------------------------------------------------
(* Strings *)

Lowers == <<"a","b","c","d","e","f","g","h","i","j","k","l","m",
            "n","o","p","q","r","s","t","u","v","w","x","y","z">>
Uppers == <<"A","B","C","D","E","F","G","H","I","J","K","L","M",
            "N","O","P","Q","R","S","T","U","V","W","X","Y","Z">>
Digits == {"0","1","2","3","4","5","6","7","8","9"}

Range(f) == {f[k] : k \in DOMAIN f}

toLowerChar(c) ==
    IF \E k \in DOMAIN Uppers : Uppers[k] = c
    THEN Lowers[CHOOSE k \in DOMAIN Uppers : Uppers[k] = c]
    ELSE c

toLowerCase(s) == [k \in 1..Len(s) |-> toLowerChar(s[k])]

\* \s of a regular expression and the white space String.prototype.trim strips
IsSpace(c) == c \in {" ", "\n", "\t"}

\* \w of a regular expression
IsWordChar(c) == c \in Range(Lowers) \cup Range(Uppers) \cup Digits \cup {"_"}

includes(s, sub) ==
    \E k \in 0..(Len(s) - Len(sub)) : SubSeq(s, k + 1, k + Len(sub)) = sub

startsWith(s, sub) == Len(sub) <= Len(s) /\ SubSeq(s, 1, Len(sub)) = sub

RECURSIVE trimStart(_)
trimStart(s) == IF s # <<>> /\ IsSpace(Head(s)) THEN trimStart(Tail(s)) ELSE s

RECURSIVE trimEnd(_)
trimEnd(s) ==
    IF s # <<>> /\ IsSpace(s[Len(s)]) THEN trimEnd(SubSeq(s, 1, Len(s) - 1)) ELSE s

trim(s) == trimEnd(trimStart(s))

\* s.split("\n")
RECURSIVE split(_)
split(s) ==
    IF \E k \in 1..Len(s) : s[k] = "\n"
    THEN LET k == CHOOSE k \in 1..Len(s) : s[k] = "\n" /\ \A j \in 1..(k - 1) : s[j] # "\n"
         IN  <<SubSeq(s, 1, k - 1)>> \o split(SubSeq(s, k + 1, Len(s)))
    ELSE <<s>>

RECURSIVE SelectSeq2(_, _)
\* Array.prototype.filter with the predicate given as the set of kept values
SelectSeq2(q, keep) ==
    IF q = <<>> THEN <<>>
    ELSE (IF Head(q) \in keep THEN <<Head(q)>> ELSE <<>>) \o SelectSeq2(Tail(q), keep)

----------------------------------------------------------------------------
(* Classification rules, lines 12-30 *)

IGNORE_COURSES == {
    <<"f","b","l","a">>,
    <<"d","e","c","a">>,
    <<"s","p","e","e","c","h"," ","&"," ","d","e","b","a","t","e">>,
    <<"h","o","n","o","r"," ","s","o","c","i","e","t","y">>,
    <<"n","h","s">>,
    <<"s","a","t"," ","p","r","e","p">>,
    <<"s","a","t"," ","m","a","t","h">>,
    <<"m","a","t","h"," ","h","o","n","o","r">> }

IGNORE_TYPES == { <<"l","e","q">>, <<"d","b","q">>, <<"m","c","q">>,
                  <<"s","a","q">>, <<"f","r","q">> }

\* The regular-expression engine, for the two patterns of the source.  A
\* literal under the i flag matches at p when the lowered text equals it.
LitAt(s, p, w) ==
    /\ p >= 1
    /\ p + Len(w) - 1 <= Len(s)
    /\ toLowerCase(SubSeq(s, p, p + Len(w) - 1)) = w

\* \s* is greedy; what follows it is never white space, so the longest run is
\* the only one that can lead to a match.
RECURSIVE SkipSpaces(_, _)
SkipSpaces(s, p) == IF p <= Len(s) /\ IsSpace(s[p]) THEN SkipSpaces(s, p + 1) ELSE p

\* the pattern without its optional dots: ap\s*us\s*hist
OptDot_None(s, p) == p

\* \.? is greedy; what follows it is never a dot.
OptDot(s, p) == IF p <= Len(s) /\ s[p] = "." THEN p + 1 ELSE p

\* ap\s*u\.?s\.?\s*hist matched from position p
ApUsHistAt(s, p) ==
    /\ LitAt(s, p, <<"a","p">>)
    /\ LET p1 == SkipSpaces(s, p + 2) IN
       /\ LitAt(s, p1, <<"u">>)
       /\ LET p2 == OptDot(s, p1 + 1) IN
          /\ LitAt(s, p2, <<"s">>)
          /\ LET p3 == SkipSpaces(s, OptDot(s, p2 + 1)) IN
             LitAt(s, p3, <<"h","i","s","t">>)

\* APUSH_RE.test(s), line 17
APUSH_RE(s) ==
    \E p \in 1..Len(s) : ApUsHistAt(s, p) \/ LitAt(s, p, <<"a","p","u","s","h">>)

\* new RegExp(`\\b${t}\\b`, "i").test(s), line 28: t is made of word characters,
\* so \b holds before it when no word character precedes and after it when none follows
WholeWord(s, t) ==
    \E p \in 1..Len(s) :
        /\ LitAt(s, p, t)
        /\ (p = 1 \/ ~IsWordChar(s[p - 1]))
        /\ (p + Len(t) > Len(s) \/ ~IsWordChar(s[p + Len(t)]))

combinedOf(t, c) == toLowerCase(t \o <<" ">> \o c)

\* the subject pattern tried on the title alone
shouldSkip_SubjectOnTitle(t, c) ==
    IF \E x \in IGNORE_COURSES : includes(combinedOf(t, c), x) THEN TRUE
    ELSE IF APUSH_RE(toLowerCase(t)) THEN TRUE
    ELSE IF \E x \in IGNORE_TYPES : WholeWord(t, x) THEN TRUE
    ELSE FALSE

shouldSkip(t, c) ==
    IF \E x \in IGNORE_COURSES : includes(combinedOf(t, c), x) THEN TRUE
    ELSE IF APUSH_RE(combinedOf(t, c)) THEN TRUE
    ELSE IF \E x \in IGNORE_TYPES : WholeWord(t, x) THEN TRUE
    ELSE FALSE

----------------------------------------------------------------------------
(* The page: window.location.href and the live document *)

ORIGIN == <<"h","t","t","p","s",":","/","/","c","l","a","s","s","r","o","o","m",".","g","o","o","g","l","e",".","c","o","m">>
TODO_URL == <<"h","t","t","p","s",":","/","/","c","l","a","s","s","r","o","o","m",".","g","o","o","g","l","e",".","c","o","m","/","u","/","0","/","a","/","n","o","t","-","t","u","r","n","e","d","-","i","n","/","a","l","l">>
HOME_URL == <<"h","t","t","p","s",":","/","/","c","l","a","s","s","r","o","o","m",".","g","o","o","g","l","e",".","c","o","m","/","u","/","0","/","h">>
DETAIL_URL == <<"h","t","t","p","s",":","/","/","c","l","a","s","s","r","o","o","m",".","g","o","o","g","l","e",".","c","o","m","/","c","/","1","/","a","/","2","/","d","e","t","a","i","l","s">>

\* A card of the page: one element with its anchor.  anchor: whether it holds
\* an <a>; hrefAttr: the anchor's href attribute; cardText: the innerText of
\* the element the primary pass walks up to, which is also the item's
\* innerText; linkText: the anchor's own innerText; item: whether the element
\* matches '[class*="assignment"], [data-stream-item-id]'.
Card(a, h, ct, lt, it) ==
    [anchor |-> a, hrefAttr |-> h, cardText |-> ct, linkText |-> lt, item |-> it]

\* relative link to an essay, course line with "Period"
K1 == Card(TRUE, <<"/","c","/","1","/","a","/","2","/","d","e","t","a","i","l","s">>,
           <<"E","s","s","a","y"," ","d","r","a","f","t","\n","E","n","g","l","i","s","h"," ","P","e","r","i","o","d"," ","3">>, <<>>, FALSE)
\* the same assignment linked with an absolute href
K2 == Card(TRUE, <<"h","t","t","p","s",":","/","/","c","l","a","s","s","r","o","o","m",".","g","o","o","g","l","e",".","c","o","m","/","c","/","1","/","a","/","2","/","d","e","t","a","i","l","s">>,
           <<"E","s","s","a","y"," ","d","r","a","f","t","\n","E","n","g","l","i","s","h"," ","P","e","r","i","o","d"," ","3">>, <<>>, FALSE)
\* an assignment the classification rules exclude (DBQ), inside a stream item
K3 == Card(TRUE, <<"/","c","/","1","/","a","/","3","/","d","e","t","a","i","l","s">>,
           <<"D","B","Q"," ","p","r","a","c","t","i","c","e">>, <<>>, TRUE)
\* a stream item whose detail link has no "/c/" part
K4 == Card(TRUE, <<"/","u","/","0","/","a","/","9","/","d","e","t","a","i","l","s">>,
           <<"L","a","b"," ","r","e","p","o","r","t","\n","B","i","o","l","o","g","y"," ","B","l","o","c","k"," ","2">>, <<>>, TRUE)

\* a stream item whose detail link has no "/c/" part and whose text names the
\* excluded subject below its title
K5 == Card(TRUE, <<"/","u","/","0","/","a","/","7","/","d","e","t","a","i","l","s">>,
           <<"L","a","b"," ","n","o","t","e","s","\n","a","p","u","s","h"," ","u","n","i","t">>, <<>>, TRUE)

Cards == {K1, K2, K3, K4, K5}

MaxCards == 2

RECURSIVE SeqsUpTo(_, _)
SeqsUpTo(S, n) ==
    IF n = 0 THEN {<<>>}
    ELSE LET shorter == SeqsUpTo(S, n - 1)
         IN  shorter \cup {Append(q, x) : q \in {r \in shorter : Len(r) = n - 1}, x \in S}

Pages == SeqsUpTo(Cards, MaxCards)

----------------------------------------------------------------------------
(* Record extractor: scanLiveTodo, lines 140-206 *)

\* line 144: the location check that lets the scan go on
OnListing(h) ==
    ~(~includes(h, <<"/","a","/","n","o","t","-","t","u","r","n","e","d","-","i","n">>) /\ ~includes(h, <<"/","a","/">>))

\* line 154: document.querySelectorAll('a[href*="/c/"][href*="/a/"][href*="/details"]')
allLinks(d) ==
    SelectSeq2(d, {c \in Range(d) :
        /\ c.anchor
        /\ includes(c.hrefAttr, <<"/","c","/">>)
        /\ includes(c.hrefAttr, <<"/","a","/">>)
        /\ includes(c.hrefAttr, <<"/","d","e","t","a","i","l","s">>)})

\* lines 179 and 194
fullUrlOf(h) == IF startsWith(h, <<"h","t","t","p">>) THEN h ELSE ORIGIN \o h

RECURSIVE mapTrim(_)
mapTrim(q) == IF q = <<>> THEN <<>> ELSE <<trim(Head(q))>> \o mapTrim(Tail(q))

\* line 167: text.split("\n").map(l => l.trim()).filter(l => l.length > 3)
primaryLines(text) ==
    LET ls == mapTrim(split(text)) IN SelectSeq2(ls, {l \in Range(ls) : Len(l) > 3})

\* line 195: text.split("\n").filter(l => l.trim().length > 3)
secondaryLines(text) ==
    LET ls == split(text) IN SelectSeq2(ls, {l \in Range(ls) : Len(trim(l)) > 3})

\* lines 168 and 196: lines[0] || "Unknown"
titleOf(lines) == IF lines # <<>> /\ lines[1] # <<>> THEN lines[1] ELSE <<"U","n","k","n","o","w","n">>

\* line 173
IsCourseLine(l) ==
    \/ \E x \in IGNORE_COURSES : includes(toLowerCase(l), x)
    \/ includes(l, <<"B","l","o","c","k">>)
    \/ includes(l, <<"P","e","r","i","o","d">>)

\* lines 169-177: the first line that looks like a course, else ""
courseOf(lines) ==
    IF \E k \in DOMAIN lines : IsCourseLine(lines[k])
    THEN lines[CHOOSE k \in DOMAIN lines :
                 IsCourseLine(lines[k]) /\ \A j \in 1..(k - 1) : ~IsCourseLine(lines[j])]
    ELSE <<>>

Assignment(t, c, u, x) == [title |-> t, course |-> c, url |-> u, text |-> x]

\* lines 158-160: the test that skips a link of the primary pass
PrimarySkipsLink(seen, h) == h \in seen \/ includes(h, <<"n","o","t","-","t","u","r","n","e","d","-","i","n">>)

\* the turn without the test of line 181: every link's record is kept
PrimaryTurn_Unfiltered(acc, link) ==
    LET h == link.hrefAttr IN
    IF PrimarySkipsLink(acc.seen, h) THEN acc
    ELSE LET text  == trim(IF link.cardText # <<>> THEN link.cardText ELSE link.linkText)
             lines == primaryLines(text)
         IN  [seen |-> acc.seen \cup {h},
              list |-> Append(acc.list, Assignment(titleOf(lines), courseOf(lines),
                                                   fullUrlOf(h), text))]

\* lines 157-184: one turn of the loop over allLinks; acc is [seen, list]
PrimaryTurn(acc, link) ==
    LET h == link.hrefAttr IN
    IF PrimarySkipsLink(acc.seen, h) THEN acc
    ELSE LET text  == trim(IF link.cardText # <<>> THEN link.cardText ELSE link.linkText)
             lines == primaryLines(text)
             t     == titleOf(lines)
             c     == courseOf(lines)
         IN  [seen |-> acc.seen \cup {h},
              list |-> IF ~shouldSkip(t, c)
                       THEN Append(acc.list, Assignment(t, c, fullUrlOf(h), text))
                       ELSE acc.list]

RECURSIVE PrimaryPass(_, _)
PrimaryPass(acc, links) ==
    IF links = <<>> THEN acc ELSE PrimaryPass(PrimaryTurn(acc, Head(links)), Tail(links))

\* line 188: document.querySelectorAll('[class*="assignment"], [data-stream-item-id]')
itemsOf(d) == SelectSeq2(d, {c \in Range(d) : c.item})

\* line 197: the test that admits an item of the secondary pass
SecondaryAdmits(seen, h, t, text) == h \notin seen /\ ~shouldSkip(t, text)

\* lines 189-202: one turn of the loop over the items
SecondaryTurn(acc, item) ==
    LET text == trim(item.cardText) IN
    \* line 191: item.querySelector('a[href*="/details"]')
    IF item.anchor /\ includes(item.hrefAttr, <<"/","d","e","t","a","i","l","s">>)
    THEN LET h == item.hrefAttr
             t == titleOf(secondaryLines(text))
         IN  IF SecondaryAdmits(acc.seen, h, t, text)
             THEN [seen |-> acc.seen \cup {h},
                   list |-> Append(acc.list, Assignment(t, <<>>, fullUrlOf(h), text))]
             ELSE acc
    ELSE acc

RECURSIVE SecondaryPass(_, _)
SecondaryPass(acc, items) ==
    IF items = <<>> THEN acc
    ELSE SecondaryPass(SecondaryTurn(acc, Head(items)), Tail(items))

\* line 187: the secondary pass runs when the primary pass kept nothing
UseSecondary(list) == Len(list) = 0

\* lines 152-205: what scanLiveTodo returns once the settle delay is over
scanDocument(d) ==
    LET first == PrimaryPass([seen |-> {}, list |-> <<>>], allLinks(d))
    IN  IF UseSecondary(first.list) THEN SecondaryPass(first, itemsOf(d)).list
        ELSE first.list

\* scanDocument over the pages of the model, evaluated once
Scanned == [d \in Pages |-> scanDocument(d)]

----------------------------------------------------------------------------
(* Progress reporter: log, createPanel, setStatus, addResult, lines 32-63 *)

\* A status line, log line or result block: its wording m and what is
\* interpolated into it (two numbers and one string)
Msg(m, a, b, t) == [m |-> m, a |-> a, b |-> b, t |-> t]

\* A call main made: a = record index, b = endpoint index, outcome or count
Ev(e, a, b) == [e |-> e, a |-> a, b |-> b]

\* The reporter's state, threaded through the calls of one step
Reporter == [panel |-> panel, status |-> status, results |-> results,
             sfLog |-> sfLog, events |-> events]

\* lines 32-36
log(R, msg) == [R EXCEPT !.sfLog = Append(@, msg)]

\* lines 39-52: the new panel replaces an older one and shows "Starting..."
createPanel(R) ==
    [R EXCEPT !.panel = TRUE,
              !.status = Msg("Starting...", 0, 0, <<>>),
              !.results = <<>>]

\* the line logged inside the test for the status element
setStatus_LogsWhenShown(R, msg) ==
    IF R.panel THEN log([R EXCEPT !.status = msg], msg) ELSE R

\* lines 54-58: the status element is found only while the panel is in the document
setStatus(R, msg) ==
    log([R EXCEPT !.status = IF R.panel THEN msg ELSE @], msg)

\* lines 60-63
addResult(R, block) ==
    [R EXCEPT !.results = IF R.panel THEN Append(@, block) ELSE @]

emit(R, ev) == [R EXCEPT !.events = Append(@, ev)]

Report(R) ==
    /\ panel' = R.panel
    /\ status' = R.status
    /\ results' = R.results
    /\ sfLog' = R.sfLog
    /\ events' = R.events

----------------------------------------------------------------------------
(* Generation client: callLLM, callGeminiDirect, callOpenRouter, lines 66-122 *)

\* the endpoints of each provider, in the order of lines 74 and 96
Endpoints(mode) ==
    IF mode = "openrouter"
    THEN <<"google/gemini-2.0-flash-exp:free", "google/gemma-3-1b-it:free">>
    ELSE <<"gemini-2.0-flash", "gemma-3-1b-it">>

\* lines 89 and 118: the line logged when a request or its parsing throws
ErrorLine(mode) ==
    IF mode = "openrouter" THEN Msg("OpenRouter error", 0, 0, <<>>)
    ELSE Msg("Gemini error", 0, 0, <<>>)

\* What resp.json() finds: parses tells whether the body is JSON, has whether
\* the path to the text (lines 86 and 115) leads to a value, text that value
Body(parses, has, text) == [parses |-> parses, has |-> has, text |-> text]

Bodies == {
    Body(FALSE, FALSE, <<>>),
    Body(TRUE, FALSE, <<>>),
    Body(TRUE, TRUE, <<>>),
    Body(TRUE, TRUE, <<" ">>),
    Body(TRUE, TRUE, <<" ","o","k","\n">>) }

NoBody == Body(FALSE, FALSE, <<>>)

\* What callLLM returns: null, or a string
Null == [null |-> TRUE, s |-> <<>>]
Str(s) == [null |-> FALSE, s |-> s]

\* the text returned as it came, without trim()
textOf_Untrimmed(body) ==
    IF body.has /\ body.text # <<>> /\ trim(body.text) # <<>>
    THEN Str(body.text)
    ELSE Null

\* lines 86-87 and 115-116: the text a parsed body yields, null when the test fails
textOf(body) ==
    IF body.has /\ body.text # <<>> /\ trim(body.text) # <<>>
    THEN Str(trim(body.text))
    ELSE Null

\* textOf over the bodies of the model, evaluated once
Texts == [b \in Bodies |-> textOf(b)]

\* What one endpoint did, kept for the length of one generate call: how the
\* request ended and, when it ended with a text, the text of the body
Attempt(kind, text) == [kind |-> kind, text |-> text]

----------------------------------------------------------------------------
(* Main, lines 308-368 *)

PLACEHOLDER == "%%GEMINI_KEY%%"

\* lines 231, 234, 238, 241: the value of a detail fetch
Details(description, docLinks) == [description |-> description, docLinks |-> docLinks]
EmptyDetails == Details(<<>>, <<>>)
NoDetails == [description |-> <<>>, docLinks |-> <<>>, none |-> TRUE]

Undeclared == [declared |-> FALSE, value |-> ""]
Declared(v) == [declared |-> TRUE, value |-> v]

\* line 312: evaluating GEMINI_KEY throws a ReferenceError when no binding
\* of that name is in scope
KeyCheckThrows == ~GEMINI_KEY.declared

\* line 312: !GEMINI_KEY || GEMINI_KEY === "%%GEMINI_KEY%%"
KeyCheckFails == GEMINI_KEY.value = "" \/ GEMINI_KEY.value = PLACEHOLDER

Config == <<API_KEY, API_MODE, GEMINI_KEY, dom>>
Classifier == <<title, course, skipped>>
Detail == <<frame, promise, value, calls, now, timers, loads>>

\* lines 332-338 down to the first fetch of callLLM: the "starting" event of
\* record k and the request to the first endpoint
StartRecord(R, list, k) ==
    LET R1 == setStatus(R, Msg("[i/N] Drafting: title", k, Len(list), list[k].title))
        R2 == addResult(R1, Msg("header", k, 0, list[k].title))
        R3 == emit(emit(R2, Ev("start", k, Len(list))), Ev("request", k, 1))
    IN  /\ Report(R3)
        /\ i' = k
        /\ ep' = 1
        /\ attempts' = <<>>
        /\ resp' = NoBody
        /\ pc' = "fetch"

\* a test that takes null for a draft
HasDraft_Always(d) == TRUE

\* line 340: if (draft)
HasDraft(d) == ~d.null

\* the loop's pacing test off by one: the last record gets no turn
MorePending_OffByOne(k, n) == k < n - 1

\* line 357: i < assignments.length - 1, for the 1-based index k of n records
MorePending(k, n) == k - 1 < n - 1

\* lines 340-363: callLLM has returned d for record i
Outcome(R, d) ==
    LET a  == assignments[i]
        R1 == IF HasDraft(d)
              THEN emit(log(addResult(R, Msg("draft", i, Len(d.s), d.s)),
                            Msg("Draft generated for: title (n chars)", Len(d.s), 0, a.title)),
                        Ev("outcome", i, 1))
              ELSE emit(addResult(R, Msg("Draft failed - API error", 0, 0, <<>>)),
                        Ev("outcome", i, 0))
    IN  /\ draft' = d
        /\ ep' = 0
        /\ resp' = NoBody
        /\ UNCHANGED i
        /\ IF MorePending(i, Len(assignments))
           THEN /\ Report(emit(R1, Ev("pace", i, 0)))
                /\ pc' = "pace"
           ELSE /\ Report(emit(addResult(setStatus(R1,
                            Msg("Done! N assignment(s) processed.", Len(assignments), 0, <<>>)),
                            Msg("footer", 0, 0, <<>>)),
                          Ev("summary", Len(assignments), 0)))
                /\ pc' = "done"

\* lines 74/97: the next turn of the loop over the endpoints, or line 92/121
NextEndpoint(R, att) ==
    /\ attempts' = att
    /\ IF ep < Len(Endpoints(API_MODE))
       THEN /\ ep' = ep + 1
            /\ pc' = "fetch"
            /\ resp' = NoBody
            /\ Report(emit(R, Ev("request", i, ep + 1)))
            /\ UNCHANGED <<i, draft>>
       ELSE Outcome(R, Null)

\* line 312 throws: the catch of lines 365-368
MainKeyThrows ==
    /\ pc = "start"
    /\ KeyCheckThrows
    /\ Report(emit(log(setStatus(createPanel(Reporter),
                                 Msg("Error: GEMINI_KEY is not defined", 0, 0, <<>>)),
                       Msg("Fatal: stack", 0, 0, <<>>)),
                   Ev("error", 0, 0)))
    /\ pc' = "done"
    /\ UNCHANGED <<Config, Classifier, Detail, href, assignments, i, ep, resp, attempts, draft>>

\* lines 312-315
MainNoKey ==
    /\ pc = "start"
    /\ ~KeyCheckThrows
    /\ KeyCheckFails
    /\ Report(emit(setStatus(createPanel(Reporter),
                             Msg("ERROR: No API key. Re-create bookmarklet with your key.",
                                 0, 0, <<>>)),
                   Ev("nokey", 0, 0)))
    /\ pc' = "done"
    /\ UNCHANGED <<Config, Classifier, Detail, href, assignments, i, ep, resp, attempts, draft>>

\* lines 317-321 with 141-147: scanLiveTodo leaves the page
MainRedirect ==
    /\ pc = "start"
    /\ ~KeyCheckThrows
    /\ ~KeyCheckFails
    /\ ~OnListing(href)
    /\ href' = TODO_URL
    /\ Report(emit(setStatus(setStatus(emit(createPanel(Reporter), Ev("scan", 0, 0)),
                       Msg("Scanning To-do page...", 0, 0, <<>>)),
                       Msg("Redirecting to To-do page... Click bookmarklet again after page loads.",
                           0, 0, <<>>)),
                   Ev("redirect", 0, 0)))
    /\ pc' = "done"
    /\ UNCHANGED <<Config, Classifier, Detail, assignments, i, ep, resp, attempts, draft>>

\* lines 317 with 141-150: scanLiveTodo starts the settle delay
MainScan ==
    /\ pc = "start"
    /\ ~KeyCheckThrows
    /\ ~KeyCheckFails
    /\ OnListing(href)
    /\ Report(emit(setStatus(emit(createPanel(Reporter), Ev("scan", 0, 0)),
                             Msg("Scanning To-do page...", 0, 0, <<>>)),
                   Ev("settle", 0, 0)))
    /\ pc' = "settle"
    /\ UNCHANGED <<Config, Classifier, Detail, href, assignments, i, ep, resp, attempts, draft>>

\* lines 150-205 and 323-327: the settle delay is over and nothing was found
SettleEmpty ==
    /\ pc = "settle"
    /\ Len(Scanned[dom]) = 0
    /\ assignments' = Scanned[dom]
    /\ Report(emit(addResult(setStatus(Reporter,
                       Msg("No assignments found. Make sure you're on the To-do page.",
                           0, 0, <<>>)),
                       Msg("hint", 0, 0, <<>>)),
                   Ev("empty", 0, 0)))
    /\ pc' = "done"
    /\ UNCHANGED <<Config, Classifier, Detail, href, i, ep, resp, attempts, draft>>

\* lines 150-205 and 329-338: the settle delay is over, records were found,
\* the loop starts with the first one
SettleFound ==
    /\ pc = "settle"
    /\ Len(Scanned[dom]) > 0
    /\ assignments' = Scanned[dom]
    /\ StartRecord(setStatus(Reporter,
                       Msg("Found N assignment(s). Generating drafts...",
                           Len(Scanned[dom]), 0, <<>>)),
                   Scanned[dom], 1)
    /\ UNCHANGED <<Config, Classifier, Detail, href, draft>>

\* lines 76/99 and 88/117: fetch rejects (a network error)
FetchRejects ==
    /\ pc = "fetch"
    /\ NextEndpoint(log(Reporter, ErrorLine(API_MODE)),
                    Append(attempts, Attempt("network error", <<>>)))
    /\ UNCHANGED <<Config, Classifier, Detail, href, assignments>>

\* lines 84/113: fetch resolves with a status that is not a success
FetchNotOk ==
    /\ pc = "fetch"
    /\ NextEndpoint(Reporter, Append(attempts, Attempt("non-success status", <<>>)))
    /\ UNCHANGED <<Config, Classifier, Detail, href, assignments>>

\* lines 84-85/113-114: fetch resolves with a success; the body is being read
FetchOk ==
    /\ pc = "fetch"
    /\ \E body \in Bodies : resp' = body
    /\ pc' = "json"
    /\ UNCHANGED <<Config, Classifier, Detail, href, assignments, i, ep, attempts, draft,
                   panel, status, results, sfLog, events>>

\* resp.json() awaited outside the try: its rejection reaches main's catch
JsonThrows_Uncaught ==
    /\ pc = "json"
    /\ ~resp.parses
    /\ Report(emit(log(setStatus(Reporter, Msg("Error: Unexpected token", 0, 0, <<>>)),
                       Msg("Fatal: stack", 0, 0, <<>>)),
                   Ev("error", 0, 0)))
    /\ pc' = "done"
    /\ UNCHANGED <<Config, Classifier, Detail, href, assignments, i, ep, resp, attempts, draft>>

\* lines 85 and 88/114 and 117: resp.json() rejects
JsonThrows ==
    /\ pc = "json"
    /\ ~resp.parses
    /\ NextEndpoint(log(Reporter, ErrorLine(API_MODE)),
                    Append(attempts, Attempt("unparsable body", <<>>)))
    /\ UNCHANGED <<Config, Classifier, Detail, href, assignments>>

\* lines 85-87/114-116: the body is parsed and holds no usable text
JsonNoText ==
    /\ pc = "json"
    /\ resp.parses
    /\ Texts[resp].null
    /\ NextEndpoint(Reporter, Append(attempts, Attempt("no text", <<>>)))
    /\ UNCHANGED <<Config, Classifier, Detail, href, assignments>>

\* the text kept but the loop over the endpoints not left
JsonText_KeepsGoing ==
    /\ pc = "json"
    /\ resp.parses
    /\ ~Texts[resp].null
    /\ NextEndpoint(Reporter, Append(attempts, Attempt("text", resp.text)))
    /\ UNCHANGED <<Config, Classifier, Detail, href, assignments>>

\* lines 85-87/114-116: the body is parsed and its text is returned
JsonText ==
    /\ pc = "json"
    /\ resp.parses
    /\ ~Texts[resp].null
    /\ attempts' = Append(attempts, Attempt("text", resp.text))
    /\ Outcome(Reporter, Texts[resp])
    /\ UNCHANGED <<Config, Classifier, Detail, href, assignments>>

\* lines 357-359 and 331-338: the pacing delay is over, the next record starts
PaceOver ==
    /\ pc = "pace"
    /\ StartRecord(Reporter, assignments, i + 1)
    /\ UNCHANGED <<Config, Classifier, Detail, href, assignments, draft>>

\* line 50: the operator clicks the panel's close mark
Dismiss ==
    /\ panel
    /\ panel' = FALSE
    /\ UNCHANGED <<Config, Classifier, Detail, href, pc, status, results, sfLog, assignments,
                   i, ep, resp, attempts, draft, events>>

Keys == {"", PLACEHOLDER, "AIza-key"}
Modes == {"gemini", "openrouter"}
Locations == {HOME_URL, TODO_URL, DETAIL_URL}

Init ==
    /\ API_KEY \in Keys
    /\ API_MODE \in Modes
    /\ GEMINI_KEY \in {Undeclared} \cup {Declared(k) : k \in Keys}
    /\ href \in Locations
    /\ dom \in Pages
    /\ pc = "start"
    /\ panel = FALSE
    /\ status = Msg("", 0, 0, <<>>)
    /\ results = <<>>
    /\ sfLog = <<>>
    /\ assignments = <<>>
    /\ i = 0
    /\ ep = 0
    /\ resp = NoBody
    /\ attempts = <<>>
    /\ draft = Null
    /\ events = <<>>
    /\ title = <<>>
    /\ course = <<>>
    /\ skipped = <<>>
    /\ frame = "none"
    /\ promise = "none"
    /\ value = NoDetails
    /\ calls = 0
    /\ now = 0
    /\ timers = <<>>
    /\ loads = 0

Next ==
    \/ MainKeyThrows
    \/ MainNoKey
    \/ MainRedirect
    \/ MainScan
    \/ SettleEmpty
    \/ SettleFound
    \/ FetchRejects
    \/ FetchNotOk
    \/ FetchOk
    \/ JsonThrows
    \/ JsonNoText
    \/ JsonText
    \/ PaceOver
    \/ Dismiss

Spec == Init /\ [][Next]_vars

\* The scheduling the browser guarantees: the script runs once it is started
\* and a timer that was set (lines 150 and 358) fires.  The steps that end a
\* request (FetchRejects, FetchNotOk, FetchOk, Json...) are the network's:
\* lines 76 and 99 pass fetch no signal and set no timer beside it, so nothing
\* makes them happen.
FairSpec ==
    /\ Init
    /\ [][Next]_vars
    /\ WF_vars(MainKeyThrows \/ MainNoKey \/ MainRedirect \/ MainScan)
    /\ WF_vars(SettleEmpty \/ SettleFound)
    /\ WF_vars(PaceOver)

----------------------------------------------------------------------------
(* shouldSkip applied to titles and courses made of a few words *)

TitleWords == {
    <<" ">>,
    <<"r","e","c","a","p">>,
    <<"A","P"," ","U",".","S","."," ","H","i","s","t","o","r","y"," ">>,
    <<"D","B","Q"," ","#","3">>,
    <<"d","b","q","s">>,
    <<"s","a","t">>,
    <<"E","s","s","a","y">> }

CourseWords == {
    <<" ">>,
    <<"U","S"," ","H","i","s","t","o","r","y">>,
    <<"p","r","e","p">>,
    <<"N","H","S">>,
    <<"d","b","q">>,
    <<"E","n","g","l","i","s","h">> }

MaxTitleWords == 2
MaxCourseWords == 1

RECURSIVE Flatten(_)
Flatten(q) == IF q = <<>> THEN <<>> ELSE Head(q) \o Flatten(Tail(q))

SkipInit ==
    /\ title \in {Flatten(q) : q \in SeqsUpTo(TitleWords, MaxTitleWords)}
    /\ course \in {Flatten(q) : q \in SeqsUpTo(CourseWords, MaxCourseWords)}
    /\ skipped = <<>>
    /\ pc = "shouldSkip"
    /\ API_KEY = ""
    /\ API_MODE = "gemini"
    /\ GEMINI_KEY = Undeclared
    /\ href = TODO_URL
    /\ dom = <<>>
    /\ panel = FALSE
    /\ status = Msg("", 0, 0, <<>>)
    /\ results = <<>>
    /\ sfLog = <<>>
    /\ assignments = <<>>
    /\ i = 0
    /\ ep = 0
    /\ resp = NoBody
    /\ attempts = <<>>
    /\ draft = Null
    /\ events = <<>>
    /\ frame = "none"
    /\ promise = "none"
    /\ value = NoDetails
    /\ calls = 0
    /\ now = 0
    /\ timers = <<>>
    /\ loads = 0

\* lines 24-30: one call of shouldSkip
Classify ==
    /\ pc = "shouldSkip"
    /\ skipped' = <<shouldSkip(title, course)>>
    /\ pc' = "returned"
    /\ UNCHANGED <<Config, Detail, title, course, href, panel, status, results, sfLog,
                   assignments, i, ep, resp, attempts, draft, events>>

SkipNext == Classify

SkipSpec == SkipInit /\ [][SkipNext]_vars

----------------------------------------------------------------------------
(* Detail fetch: getAssignmentDetails, lines 209-243.  Time is in seconds. *)

\* line 218: setTimeout(r, 3000)
SettleDelay == 3
\* line 238: setTimeout(..., 10000)
CeilingDelay == 10

MaxTime == 14
MaxLoads == 2

Timer(kind, at) == [kind |-> kind, at |-> at]

\* what iframe.contentDocument gives at line 220 while the frame is in the
\* page: null (a document of another origin), a document whose reading
\* throws, or a readable document with its text and its links to documents
NullDoc == [kind |-> "null", text |-> <<>>, links |-> <<>>]
ThrowingDoc == [kind |-> "throws", text |-> <<>>, links |-> <<>>]
Docs == { NullDoc, ThrowingDoc,
          [kind |-> "doc", text |-> <<"R","e","a","d">>, links |-> <<>>],
          [kind |-> "doc", text |-> <<>>, links |-> <<"docs.google.com/document/d/1">>] }

\* lines 220-235: the details read from doc
Extract(doc) ==
    IF doc.kind = "doc" THEN Details(doc.text, doc.links) ELSE EmptyDetails

\* resolve(v): the first call settles the promise, a later one has no effect
Resolve(v) ==
    /\ calls' = calls + 1
    /\ IF promise = "pending"
       THEN promise' = "resolved" /\ value' = v
       ELSE UNCHANGED <<promise, value>>

\* the timer the event loop runs next: one that is due, the earliest, and
\* among those of one time the first that was set
Due(k) ==
    /\ k \in DOMAIN timers
    /\ timers[k].at <= now
    /\ \A j \in DOMAIN timers :
          timers[j].at > timers[k].at \/ (timers[j].at = timers[k].at /\ j >= k)

Without(q, k) == SubSeq(q, 1, k - 1) \o SubSeq(q, k + 1, Len(q))

Main == <<Config, Classifier, href, pc, panel, status, results, sfLog,
          assignments, i, ep, resp, attempts, draft, events>>

\* lines 212-238: the iframe is attached, its src set, the ceiling timer set
DetailCall ==
    /\ promise = "none"
    /\ frame' = "attached"
    /\ promise' = "pending"
    /\ timers' = <<Timer("ceiling", now + CeilingDelay)>>
    /\ UNCHANGED <<Main, value, calls, now, loads>>

\* lines 210-214 and 240-242: creating or attaching the iframe throws
DetailCallThrows ==
    /\ promise = "none"
    /\ promise' = "resolved"
    /\ value' = EmptyDetails
    /\ UNCHANGED <<Main, frame, calls, now, timers, loads>>

\* lines 217-218: the iframe fires load; the handler sets its settle timer
FrameLoads ==
    /\ frame = "attached"
    /\ loads < MaxLoads
    /\ loads' = loads + 1
    /\ timers' = Append(timers, Timer("settle", now + SettleDelay))
    /\ UNCHANGED <<Main, frame, promise, value, calls, now>>

\* the ceiling's callback without iframe.remove()
CeilingFires_KeepsFrame ==
    \E k \in DOMAIN timers :
        /\ Due(k)
        /\ timers[k].kind = "ceiling"
        /\ timers' = Without(timers, k)
        /\ Resolve(EmptyDetails)
        /\ UNCHANGED <<Main, frame, now, loads>>

\* line 238: the ceiling timer fires
CeilingFires ==
    \E k \in DOMAIN timers :
        /\ Due(k)
        /\ timers[k].kind = "ceiling"
        /\ timers' = Without(timers, k)
        /\ frame' = "removed"
        /\ Resolve(EmptyDetails)
        /\ UNCHANGED <<Main, now, loads>>

\* lines 219-235: a settle timer fires and the handler reads the frame
SettleFires ==
    \E k \in DOMAIN timers :
        /\ Due(k)
        /\ timers[k].kind = "settle"
        /\ timers' = Without(timers, k)
        /\ frame' = "removed"
        /\ \E doc \in (IF frame = "attached" THEN Docs ELSE {NullDoc}) :
              Resolve(Extract(doc))
        /\ UNCHANGED <<Main, now, loads>>

\* a second passes; a timer that is due runs before more time passes
Tick ==
    /\ promise # "none"
    /\ now < MaxTime
    /\ \A k \in DOMAIN timers : timers[k].at > now
    /\ now' = now + 1
    /\ UNCHANGED <<Main, frame, promise, value, calls, timers, loads>>

DetailInit ==
    /\ pc = "getAssignmentDetails"
    /\ API_KEY = ""
    /\ API_MODE = "gemini"
    /\ GEMINI_KEY = Undeclared
    /\ href = TODO_URL
    /\ dom = <<>>
    /\ panel = FALSE
    /\ status = Msg("", 0, 0, <<>>)
    /\ results = <<>>
    /\ sfLog = <<>>
    /\ assignments = <<>>
    /\ i = 0
    /\ ep = 0
    /\ resp = NoBody
    /\ attempts = <<>>
    /\ draft = Null
    /\ events = <<>>
    /\ title = <<>>
    /\ course = <<>>
    /\ skipped = <<>>
    /\ frame = "none"
    /\ promise = "none"
    /\ value = NoDetails
    /\ calls = 0
    /\ now = 0
    /\ timers = <<>>
    /\ loads = 0

DetailNext ==
    \/ DetailCall
    \/ DetailCallThrows
    \/ FrameLoads
    \/ CeilingFires
    \/ SettleFires
    \/ Tick

\* The browser runs the script that was started, lets time pass and fires a
\* timer that is due; whether and when the iframe loads is the network's.
DetailSpec ==
    /\ DetailInit
    /\ [][DetailNext]_vars
    /\ WF_vars(DetailCall \/ DetailCallThrows)
    /\ WF_vars(Tick)
    /\ WF_vars(CeilingFires)
    /\ WF_vars(SettleFires)

----------------------------------------------------------------------------
(* Properties *)

N == Len(assignments)

Count(e) == Cardinality({k \in DOMAIN events : events[k].e = e})

HasEvent(e) == \E k \in DOMAIN events : events[k].e = e

LastEvent == events[Len(events)]

\* what may stand before the j-th event
WellPlaced(j) ==
    LET x == events[j] IN
    CASE x.e = "start" ->
            /\ x.b = N
            /\ j > 1
            /\ IF x.a = 1 THEN events[j - 1] = Ev("settle", 0, 0)
               ELSE events[j - 1] = Ev("pace", x.a - 1, 0)
      [] x.e = "request" ->
            /\ j > 1
            /\ \/ x.b = 1 /\ events[j - 1] = Ev("start", x.a, N)
               \/ x.b > 1 /\ events[j - 1] = Ev("request", x.a, x.b - 1)
      [] x.e = "outcome" ->
            /\ j > 1
            /\ events[j - 1].e = "request"
            /\ events[j - 1].a = x.a
      [] x.e = "pace" ->
            /\ j > 1
            /\ events[j - 1].e = "outcome"
            /\ events[j - 1].a = x.a
            /\ x.a < N
      [] x.e = "summary" ->
            /\ j > 1
            /\ j = Len(events)
            /\ events[j - 1].e = "outcome"
            /\ events[j - 1].a = N
            /\ x.a = N
      [] OTHER -> TRUE

IsDraftingLine(x) == x.m = "[i/N] Drafting: title"

\* C1: the loop's events are start 1, the requests of record 1, outcome 1,
\* pace 1, start 2, ... in the order of the list scanLiveTodo returned: a
\* request for a record follows that record's start and no request for the next
\* record precedes the outcome of this one; a pacing delay follows every
\* outcome but the last; and a run that ends after discovering N >= 1 records
\* has emitted exactly N starts, N outcomes and N - 1 pacing delays.
C1_LoopOrder ==
    /\ \A j \in DOMAIN events : WellPlaced(j)
    /\ \A k \in DOMAIN sfLog :
          IsDraftingLine(sfLog[k]) =>
             /\ sfLog[k].a \in 1..N
             /\ sfLog[k].b = N
             /\ sfLog[k].t = assignments[sfLog[k].a].title
             /\ \A j \in 1..(k - 1) : IsDraftingLine(sfLog[j]) => sfLog[j].a < sfLog[k].a
    /\ (pc = "done" /\ N >= 1) =>
          /\ Count("start") = N
          /\ Count("outcome") = N
          /\ Count("pace") = N - 1
          /\ LastEvent = Ev("summary", N, 0)

\* a finished run over two records, none of the page's links excluded
C1_Witness ==
    /\ pc = "done"
    /\ dom = <<K1, K2>>
    /\ N = 2
    /\ Count("start") = 2
    /\ Count("outcome") = 2
    /\ Count("pace") = 1

\* the generate call of record i has returned
Returned == pc \in {"pace", "done"} /\ ep = 0 /\ attempts # <<>>

\* endpoint A answered with a non-success status and endpoint B with a text
C2_Case ==
    /\ Returned
    /\ Len(attempts) = 2
    /\ attempts[1].kind = "non-success status"
    /\ attempts[2].kind = "text"

NoText == \A k \in DOMAIN attempts : attempts[k].kind # "text"

\* C3: when no endpoint of a generate call yields a text, whatever each one
\* did (network error, non-success status, unparsable body, missing, empty or
\* blank text), the call has tried both endpoints and returns null, in either
\* provider mode; and nothing the client does throws to main: main's catch
\* runs only for the key check, before any other event.
C3_NullNeverThrows ==
    /\ (Returned /\ NoText) =>
          /\ draft = Null
          /\ Len(attempts) = Len(Endpoints(API_MODE))
    /\ \A j \in DOMAIN events : events[j].e = "error" => j = 1

C3_Witness ==
    /\ Returned
    /\ API_MODE = "openrouter"
    /\ attempts = <<Attempt("unparsable body", <<>>), Attempt("no text", <<>>)>>
    /\ draft = Null

\* C4: a generate call that returned null does not end the run: the failure
\* marker is emitted for that record (and rendered while the panel is up), it
\* is followed by the pacing delay when records remain and by the summary when
\* none does, and a run that has ended after a failure holds the start, the
\* first request and the outcome of every record and ends with the summary.
C4_FailureIsLocal ==
    /\ (Returned /\ draft.null) =>
          /\ Ev("outcome", i, 0) \in Range(events)
          /\ panel => \E k \in DOMAIN results : results[k].m = "Draft failed - API error"
    /\ \A j \in DOMAIN events :
          events[j].e = "outcome" /\ events[j].b = 0 =>
             /\ j < Len(events)
             /\ events[j + 1] = IF events[j].a < N THEN Ev("pace", events[j].a, 0)
                                ELSE Ev("summary", N, 0)
    /\ (pc = "done" /\ \E k \in 1..N : Ev("outcome", k, 0) \in Range(events)) =>
          /\ LastEvent = Ev("summary", N, 0)
          /\ \A k \in 1..N :
                /\ Ev("start", k, N) \in Range(events)
                /\ Ev("request", k, 1) \in Range(events)
                /\ \E b \in {0, 1} : Ev("outcome", k, b) \in Range(events)

\* the first of two records failed, the second succeeded, the run is over
C4_Witness ==
    /\ pc = "done"
    /\ N = 2
    /\ Ev("outcome", 1, 0) \in Range(events)
    /\ Ev("outcome", 2, 1) \in Range(events)
    /\ LastEvent = Ev("summary", 2, 0)

\* C5 as claimed: the list scanLiveTodo returns never holds two records with
\* the same reference (url).
C5_UniqueReferences ==
    \A j, k \in DOMAIN assignments :
        j # k => assignments[j].url # assignments[k].url

\* a key that is neither absent nor the placeholder
RealKey(k) == k # "" /\ k # PLACEHOLDER

LastLog == sfLog[Len(sfLog)]

\* C6 as claimed: with a real key configured, on a listing whose document has
\* no matching detail link and whose secondary selector yields no record
\* either, the run ends reporting "No assignments found" with its hint, and
\* has issued no generation request and emitted no summary.
C6_EmptyResult ==
    ( /\ pc = "done"
      /\ RealKey(API_KEY)
      /\ OnListing(href)
      /\ ~HasEvent("redirect")
      /\ allLinks(dom) = <<>>
      /\ Scanned[dom] = <<>> )
    =>
    ( /\ LastEvent = Ev("empty", 0, 0)
      /\ LastLog.m = "No assignments found. Make sure you're on the To-do page."
      /\ ~HasEvent("request")
      /\ ~HasEvent("summary") )

\* the page of one item: a location of the shape line 154 gives detail links
IsDetailPage(h) ==
    /\ includes(h, <<"/","c","/">>)
    /\ includes(h, <<"/","a","/">>)
    /\ includes(h, <<"/","d","e","t","a","i","l","s">>)

\* a listing view: a location under "/a/" that is not one item's detail page
IsListingView(h) == includes(h, <<"/","a","/">>) /\ ~IsDetailPage(h)

\* C7 as claimed: scanLiveTodo called anywhere but on a listing view returns
\* null without extracting, and the run redirects, says so and ends with no
\* generation request: so once the scan was called, either the location is a
\* listing view or the run went the redirect way.
C7_NotReady ==
    /\ HasEvent("scan") => (IsListingView(href) \/ HasEvent("redirect"))
    /\ HasEvent("redirect") =>
          /\ pc = "done"
          /\ href = TODO_URL
          /\ LastLog.m = "Redirecting to To-do page... Click bookmarklet again after page loads."
          /\ assignments = <<>>
          /\ ~HasEvent("settle")
          /\ ~HasEvent("request")

\* C8 as claimed: with the access key absent or still the placeholder, no
\* pipeline step runs (no discovery, no settle delay, no generation request)
\* and the run ends with an error status line.
C8_FatalPrecondition ==
    ~RealKey(API_KEY) =>
        /\ ~HasEvent("scan")
        /\ ~HasEvent("settle")
        /\ ~HasEvent("request")
        /\ pc = "done" =>
              /\ LastEvent.e \in {"nokey", "error"}
              /\ status.m \in {"ERROR: No API key. Re-create bookmarklet with your key.",
                               "Error: GEMINI_KEY is not defined"}

\* C9 as claimed: every generation request ends within a maximum wait, so
\* each generate call returns and the run reaches its end.
C9_RunEnds == <>(pc = "done")

\* The exclusion policy, rule by rule, stated apart from the code.

\* s contains x, whatever the case of s
ContainsAnyCase(s, x) ==
    \E k \in 1..Len(s) :
        /\ k + Len(x) - 1 <= Len(s)
        /\ \A j \in 1..Len(x) : toLowerChar(s[k + j - 1]) = x[j]

\* positions p..(q - 1) of s hold white space only
Blank(s, p, q) == \A k \in p..(q - 1) : IsSpace(s[k])

\* s holds, from position p, the letters of w in either case
Spells(s, p, w) ==
    /\ p + Len(w) - 1 <= Len(s)
    /\ \A j \in 1..Len(w) : toLowerChar(s[p + j - 1]) = w[j]

\* some part of s reads "apush", or "ap", white space, "u", a dot or none, "s",
\* a dot or none, white space, "hist"
MatchesSubject(s) ==
    \E p \in 1..Len(s) :
        \/ Spells(s, p, <<"a","p","u","s","h">>)
        \/ /\ Spells(s, p, <<"a","p">>)
           /\ \E u \in (p + 2)..Len(s) :
                 /\ Blank(s, p + 2, u)
                 /\ Spells(s, u, <<"u">>)
                 /\ \E d1, d2 \in {0, 1} :
                       /\ d1 = 1 => Spells(s, u + 1, <<".">>)
                       /\ Spells(s, u + 1 + d1, <<"s">>)
                       /\ d2 = 1 => Spells(s, u + 2 + d1, <<".">>)
                       /\ \E h \in (u + 2 + d1 + d2)..Len(s) :
                             /\ Blank(s, u + 2 + d1 + d2, h)
                             /\ Spells(s, h, <<"h","i","s","t">>)

\* the words of s: its longest runs of word characters
WordsOf(s) ==
    LET starts == {p \in 1..Len(s) : IsWordChar(s[p]) /\ (p = 1 \/ ~IsWordChar(s[p - 1]))}
        ends   == {q \in 1..Len(s) : IsWordChar(s[q]) /\ (q = Len(s) \/ ~IsWordChar(s[q + 1]))}
    IN  {SubSeq(s, p, CHOOSE q \in ends : q >= p /\ \A e \in ends : e >= p => q <= e) :
            p \in starts}

ExcludedCourse(t, c) == \E x \in IGNORE_COURSES : ContainsAnyCase(t \o <<" ">> \o c, x)

ExcludedType(t) == \E w \in WordsOf(t) : toLowerCase(w) \in IGNORE_TYPES

\* C10 as claimed: shouldSkip is true exactly when (1) title and group put
\* together hold an excluded-course substring, or (2) the title alone or the
\* group alone matches the excluded-subject pattern, or (3) the title holds an
\* excluded type as a whole word; in any case of the letters.
C10_Original ==
    skipped # <<>> =>
        skipped[1] = ( \/ ExcludedCourse(title, course)
                       \/ MatchesSubject(title)
                       \/ MatchesSubject(course)
                       \/ ExcludedType(title) )

\* C10 as amended: shouldSkip is true exactly when (1) title, a space and
\* group put together hold an excluded-course substring, or (2) title, a space
\* and group put together match the excluded-subject pattern (a match may run
\* from the end of the title into the group), or (3) the title holds an
\* excluded type as a whole word; in any case of the letters, and whichever
\* rule is tried first.
C10_Policy ==
    skipped # <<>> =>
        skipped[1] = ( \/ ExcludedType(title)
                       \/ MatchesSubject(title \o <<" ">> \o course)
                       \/ ExcludedCourse(title, course) )

\* excluded by the subject pattern alone, which neither part matches by itself
C10_Witness ==
    /\ skipped = <<TRUE>>
    /\ title = <<"r","e","c","a","p">>
    /\ course = <<"U","S"," ","H","i","s","t","o","r","y">>
    /\ ~MatchesSubject(title)
    /\ ~MatchesSubject(course)
    /\ ~ExcludedCourse(title, course)
    /\ ~ExcludedType(title)

\* The records a page offers, stated apart from the extraction loops.

\* what an element of the page leads to: the title and the group of its text
\* (first line, first line that looks like a course) and its reference
Candidate(c) ==
    LET lines == primaryLines(trim(c.cardText))
    IN  [title |-> titleOf(lines), group |-> courseOf(lines), url |-> fullUrlOf(c.hrefAttr)]

\* the detail links that are not links to a listing
PrimaryCandidates(d) ==
    {Candidate(c) : c \in {c \in Range(allLinks(d)) :
        ~includes(c.hrefAttr, <<"n","o","t","-","t","u","r","n","e","d","-","i","n">>)}}

\* the assignment and stream items that hold a detail link
SecondaryCandidates(d) ==
    {Candidate(c) : c \in {c \in Range(d) :
        c.item /\ c.anchor /\ includes(c.hrefAttr, <<"/","d","e","t","a","i","l","s">>)}}

Survivors(C) == {r \in C : ~shouldSkip(r.title, r.group)}

\* the records discovered: those of the primary selector, and those of the
\* secondary selector when the primary ones leave no record
Discovered(d) ==
    IF Survivors(PrimaryCandidates(d)) = {}
    THEN PrimaryCandidates(d) \cup SecondaryCandidates(d)
    ELSE PrimaryCandidates(d)

\* the generation calls made for record k
StartsOf(k) == {j \in DOMAIN events : events[j].e = "start" /\ events[j].a = k}

\* C11 as claimed: once discovery is over, every discovered record that
\* shouldSkip(title, group) does not exclude is in the list scanLiveTodo
\* returned, whichever selector found it, and a run that reached its summary
\* made exactly one generation call for it.
C11_Proceeds ==
    (HasEvent("settle") /\ pc # "settle") =>
        \A r \in Survivors(Discovered(dom)) :
            \E k \in DOMAIN assignments :
                /\ assignments[k].url = r.url
                /\ assignments[k].title = r.title
                /\ HasEvent("summary") => Cardinality(StartsOf(k)) = 1

IsDoneLine(x) == x.m = "Done! N assignment(s) processed."

\* C12: the summary is emitted at most once and is the last thing main does:
\* when it is there, every one of the N >= 1 records has its outcome before it
\* (a draft or a failure marker, counted alike), it and the one "Done!" line
\* of the log give the count N, and the run is over; and a run that has
\* started a record and is over has emitted it.
C12_SummaryOnce ==
    /\ Count("summary") <= 1
    /\ \A j \in DOMAIN events :
          events[j].e = "summary" =>
             /\ j = Len(events)
             /\ pc = "done"
             /\ N >= 1
             /\ events[j].a = N
             /\ Count("outcome") = N
             /\ \A k \in 1..N : \E m \in 1..(j - 1) :
                   events[m].e = "outcome" /\ events[m].a = k
             /\ Cardinality({k \in DOMAIN sfLog : IsDoneLine(sfLog[k])}) = 1
             /\ \A k \in DOMAIN sfLog : IsDoneLine(sfLog[k]) => sfLog[k].a = N
    /\ (pc = "done" /\ HasEvent("start")) => Count("summary") = 1

\* a run over two records, a draft for the first and a failure for the second
C12_Witness ==
    /\ pc = "done"
    /\ N = 2
    /\ Ev("outcome", 1, 1) \in Range(events)
    /\ Ev("outcome", 2, 0) \in Range(events)
    /\ LastEvent = Ev("summary", 2, 0)
    /\ IsDoneLine(LastLog)

\* what main and the generation client hold: everything but the panel and
\* what it shows
Pipeline == <<Config, href, pc, sfLog, assignments, i, ep, resp, attempts, draft, events>>

\* a step of main or of the generation client
PipelineStep ==
    \/ MainKeyThrows \/ MainNoKey \/ MainRedirect \/ MainScan
    \/ SettleEmpty \/ SettleFound
    \/ FetchRejects \/ FetchNotOk \/ FetchOk
    \/ JsonThrows \/ JsonNoText \/ JsonText
    \/ PaceOver

\* the status lines main logs for the call ev, panel or no panel
StatusLinesOf(ev) ==
    CASE ev.e = "scan"     -> <<"Scanning To-do page...">>
      [] ev.e = "redirect" -> <<"Redirecting to To-do page... Click bookmarklet again after page loads.">>
      [] ev.e = "empty"    -> <<"No assignments found. Make sure you're on the To-do page.">>
      [] ev.e = "nokey"    -> <<"ERROR: No API key. Re-create bookmarklet with your key.">>
      [] ev.e = "start"    -> IF ev.a = 1
                              THEN <<"Found N assignment(s). Generating drafts...", "[i/N] Drafting: title">>
                              ELSE <<"[i/N] Drafting: title">>
      [] ev.e = "outcome"  -> IF ev.b = 1 THEN <<"Draft generated for: title (n chars)">> ELSE <<>>
      [] ev.e = "summary"  -> <<"Done! N assignment(s) processed.">>
      [] ev.e = "error"    -> <<"Error: GEMINI_KEY is not defined", "Fatal: stack">>
      [] OTHER             -> <<>>

RECURSIVE LinesOf(_)
LinesOf(evs) == IF evs = <<>> THEN <<>> ELSE StatusLinesOf(Head(evs)) \o LinesOf(Tail(evs))

\* the wording of the log's lines, the client's error lines left out
RECURSIVE WordingOf(_)
WordingOf(lg) ==
    IF lg = <<>> THEN <<>>
    ELSE (IF Head(lg) \in {ErrorLine(m) : m \in Modes} THEN <<>> ELSE <<Head(lg).m>>)
         \o WordingOf(Tail(lg))

\* C13: dismissing the panel is cosmetic.  The click changes nothing but the
\* panel (the request in flight, the records, the position of the loop, the
\* pacing and the log stay as they are); with the panel gone every step of
\* main and of the client that was possible is still possible; the log holds
\* the lines the calls made so far put there, panel or no panel; and no step
\* after a dismissal raises an error (main's catch runs only for the key
\* check, before the panel exists).
C13_DismissCosmetic ==
    /\ [][(panel /\ ~panel') => UNCHANGED Pipeline]_vars
    /\ [](WordingOf(sfLog) = LinesOf(events))
    /\ []((pc # "done") => ENABLED PipelineStep)
    /\ [](\A j \in DOMAIN events : events[j].e = "error" => j = 1 /\ status.m # "")

\* the panel was dismissed while the first request was in flight, and the run
\* went on over both records to its summary
C13_Witness ==
    /\ pc = "done"
    /\ ~panel
    /\ Len(results) = 1
    /\ IsDraftingLine(status)
    /\ status.a = 1
    /\ N = 2
    /\ LastEvent = Ev("summary", 2, 0)
    /\ IsDoneLine(LastLog)

\* the scenario's title, 'AP U.S. History DBQ #3'
ScenarioTitle == <<"A","P"," ","U",".","S","."," ","H","i","s","t","o","r","y"," ","D","B","Q"," ","#","3">>

\* C14: shouldSkip('AP U.S. History DBQ #3', '') is true, and the subject
\* pattern is what makes it so: no excluded-course substring is in the text,
\* the test of line 27 succeeds on it, which is where the function returns,
\* so the result does not wait for the type rule (which would match "DBQ" too).
C14_SubjectAlone ==
    (skipped # <<>> /\ title = ScenarioTitle /\ course = <<>>) =>
        /\ skipped = <<TRUE>>
        /\ ~ExcludedCourse(title, course)
        /\ ~(\E x \in IGNORE_COURSES : includes(combinedOf(title, course), x))
        /\ APUSH_RE(combinedOf(title, course))
        /\ MatchesSubject(title \o <<" ">> \o course)
        /\ ExcludedType(title)

C14_Witness ==
    /\ pc = "returned"
    /\ title = ScenarioTitle
    /\ course = <<>>
    /\ skipped = <<TRUE>>

\* where in events the requests for record k stand
RequestsOf(k) == {j \in DOMAIN events : events[j].e = "request" /\ events[j].a = k}

\* an endpoint failed: the request was rejected, the status was not a
\* success, the body could not be read or it held no text
Failed(att) == att.kind \in {"network error", "non-success status", "unparsable body", "no text"}

\* C15: in one generate call the endpoints are asked in their configured
\* order, each once: the requests of a record are endpoints 1, 2, ... with no
\* repeat; while a request is in flight every earlier endpoint of the call has
\* failed; and once an endpoint gave a text the call has returned, that
\* endpoint being the last one asked.
C15_InOrderOnce ==
    /\ \A j \in DOMAIN events :
          events[j].e = "request" =>
             /\ events[j].a \in 1..N
             /\ events[j].b <= Len(Endpoints(API_MODE))
             /\ events[j].b = 1 + Cardinality({m \in RequestsOf(events[j].a) : m < j})
    /\ i >= 1 =>
          /\ Cardinality(RequestsOf(i)) = IF pc \in {"fetch", "json"} THEN Len(attempts) + 1
                                          ELSE Len(attempts)
          /\ pc \in {"fetch", "json"} => ep = Len(attempts) + 1
          /\ \A j \in DOMAIN attempts :
                IF j < Len(attempts) \/ pc \in {"fetch", "json"}
                THEN Failed(attempts[j])
                ELSE Failed(attempts[j]) \/ attempts[j].kind = "text"
          /\ \A j \in DOMAIN attempts :
                attempts[j].kind = "text" => j = Len(attempts) /\ Returned /\ ~draft.null

\* the first endpoint gave a text: the second was never asked
C15_Witness ==
    /\ Returned
    /\ attempts # <<>>
    /\ attempts[1].kind = "text"
    /\ Cardinality(RequestsOf(i)) = 1
    /\ Len(Endpoints(API_MODE)) = 2

\* C16 as claimed: when the primary selector finds a detail link that is not
\* a link to a listing, excluded later or not, every record of the result
\* comes from a link of the primary selector and none from the secondary one.
C16_SecondaryOnlyWhenNoLink ==
    (HasEvent("settle") /\ pc # "settle" /\ PrimaryCandidates(dom) # {}) =>
        \A k \in DOMAIN assignments :
            \E r \in PrimaryCandidates(dom) :
                r.url = assignments[k].url /\ r.title = assignments[k].title

\* the policy's verdict on a record's own title and group
Excluded(r) ==
    \/ ExcludedCourse(r.title, r.course)
    \/ MatchesSubject(r.title \o <<" ">> \o r.course)
    \/ ExcludedType(r.title)

\* the verdicts on the records the pages of the model yield, evaluated once
Verdict == [r \in UNION {Range(Scanned[d]) : d \in Pages} |-> Excluded(r)]

\* C17: a generation request is only ever issued for a record of the list
\* scanLiveTodo returned, and no record of that list, from the primary or
\* from the secondary pass, is one the policy excludes on its title and group.
C17_NoExcludedGenerated ==
    /\ \A k \in DOMAIN assignments : ~Verdict[assignments[k]]
    /\ \A j \in DOMAIN events :
          events[j].e = "request" =>
             /\ events[j].a \in DOMAIN assignments
             /\ ~Verdict[assignments[events[j].a]]

\* the page's primary link is excluded (DBQ), the secondary pass found the
\* lab report, and a request was issued for it alone
C17_Witness ==
    /\ dom = <<K3, K4>>
    /\ N = 1
    /\ assignments[1].course = <<>>
    /\ Ev("request", 1, 1) \in Range(events)
    /\ Excluded(Candidate(K3) @@ [course |-> Candidate(K3).group])

\* C18: the promise of getAssignmentDetails never rejects; once resolved it
\* keeps its value, however often resolve is called after; it is pending no
\* longer than the ceiling; it is resolved with details read from the
\* frame's document or with the empty details, and with the empty details
\* when no load event came; once it is resolved the frame is no longer in
\* the page; and in every case it does get resolved and the frame removed.
C18_DetailBounded ==
    /\ [](promise # "rejected")
    /\ [][promise = "resolved" => (promise' = "resolved" /\ value' = value)]_vars
    /\ [](promise = "pending" => now <= CeilingDelay)
    /\ [](promise = "resolved" =>
            /\ value \in {Extract(d) : d \in Docs}
            /\ loads = 0 => value = EmptyDetails
            /\ frame # "attached")
    /\ <>(promise = "resolved")
    /\ <>[](frame # "attached")

\* the load event came late: the ceiling resolved the promise with the empty
\* details, and the settle timer of the load ran after it to no effect
C18_Witness ==
    /\ promise = "resolved"
    /\ value = EmptyDetails
    /\ loads = 1
    /\ calls = 2
    /\ now = CeilingDelay + 1
    /\ timers = <<>>
    /\ frame = "removed"

\* C19 as claimed: with a real access key configured the run passes the key
\* check and calls scanLiveTodo: it raises no error and does not abort for
\* want of a key, and when it is over discovery has begun.
C19_RealKeyPasses ==
    RealKey(API_KEY) =>
        /\ ~HasEvent("error")
        /\ ~HasEvent("nokey")
        /\ pc = "done" => HasEvent("scan")

====
